---- MODULE Spec2Model ----
(***************************************************************************)
(* InkyPi: the iCloud shared-album photo rotation (IcloudPhotos) and the   *)
(* image fit pipeline (resize_image, DisplayManager.display_image).        *)
(***************************************************************************)
EXTENDS Integers, Sequences, FiniteSets, TLC

(***************************************************************************)
(* Bounds of the model.                                                    *)
(***************************************************************************)
\* number of distinct photoGuid values the remote album can hold
MaxGuids == 3
\* largest width or height of a source image or of the display
MaxDim == 3
\* most characters after the '#' of an album URL
MaxTokenLen == 3

Guids == 1..MaxGuids
Checksums == {"c1", "c2"}
NoGuid == 0

(***************************************************************************)
(* Stream identity: get_stream_id, get_partition, base62_decode.           *)
(* A URL is a record: whether it starts with the expected prefix, and the  *)
(* characters after the '#'.  The empty string is the record with          *)
(* empty = TRUE.                                                           *)
(***************************************************************************)
Base62Chars ==
  << "0","1","2","3","4","5","6","7","8","9",
     "A","B","C","D","E","F","G","H","I","J","K","L","M",
     "N","O","P","Q","R","S","T","U","V","W","X","Y","Z",
     "a","b","c","d","e","f","g","h","i","j","k","l","m",
     "n","o","p","q","r","s","t","u","v","w","x","y","z" >>

char_map(c) == (CHOOSE i \in 1..Len(Base62Chars) : Base62Chars[i] = c) - 1

IsBase62(c) == \E i \in 1..Len(Base62Chars) : Base62Chars[i] = c

RECURSIVE base62_value(_, _)
base62_value(s, value) ==
  IF s = << >> THEN value
  ELSE base62_value(Tail(s), value * 62 + char_map(Head(s)))

\* [ok |-> FALSE, error |-> "ValueError"] on a character outside the alphabet
base62_decode(s) ==
  IF \E i \in 1..Len(s) : ~IsBase62(s[i])
  THEN [ok |-> FALSE, error |-> "ValueError", value |-> 0]
  ELSE [ok |-> TRUE, error |-> "", value |-> base62_value(s, 0)]

EmptyUrl == [empty |-> TRUE, prefix |-> FALSE, token |-> << >>]

Url(prefix, token) == [empty |-> FALSE, prefix |-> prefix, token |-> token]

\* the album_url settings the cycle is run with
AlbumUrls ==
  { EmptyUrl,
    Url(FALSE, <<"B", "1", "2">>),
    Url(TRUE, <<"A">>),
    Url(TRUE, <<"B", "1", "2">>) }

\* str.strip() on the characters of the model: blanks at both ends removed
RECURSIVE LStrip(_)
LStrip(s) == IF s # << >> /\ Head(s) = " " THEN LStrip(Tail(s)) ELSE s

RECURSIVE RStrip(_)
RStrip(s) ==
  IF s # << >> /\ s[Len(s)] = " " THEN RStrip(SubSeq(s, 1, Len(s) - 1)) ELSE s

Strip(s) == RStrip(LStrip(s))

get_stream_id(url) ==
  IF url.empty \/ ~url.prefix
  THEN [ok |-> FALSE, error |-> "RuntimeError: provide a full URL", stream_id |-> << >>]
  ELSE IF Strip(url.token) = << >>
          \/ \E i \in 1..Len(Strip(url.token)) : ~IsBase62(Strip(url.token)[i])
  THEN [ok |-> FALSE, error |-> "RuntimeError: stream ID invalid", stream_id |-> << >>]
  ELSE [ok |-> TRUE, error |-> "", stream_id |-> Strip(url.token)]

\* Python slice s[1:3]: the characters at 0-based positions 1 and 2 that exist
Slice13(s) == SubSeq(s, 2, IF Len(s) < 3 THEN Len(s) ELSE 3)

get_partition(stream_id) ==
  IF stream_id # << >> /\ stream_id[1] = "A"
  THEN IF Len(stream_id) < 2
       THEN [ok |-> FALSE, error |-> "IndexError", value |-> 0]
       ELSE base62_decode(<<stream_id[2]>>)
  ELSE base62_decode(Slice13(stream_id))

\* the characters a token of the model is made of
TokenChars == {"A", "B", "1", "-", " "}

RECURSIVE SeqsUpTo(_, _)
SeqsUpTo(chars, n) ==
  IF n = 0 THEN {<< >>}
  ELSE LET shorter == SeqsUpTo(chars, n - 1)
       IN shorter \cup {Append(t, c) : t \in shorter, c \in chars}

\* the album URLs stream identity derivation is applied to
IdentityUrls ==
  {EmptyUrl} \cup {Url(p, t) : p \in BOOLEAN, t \in SeqsUpTo(TokenChars, MaxTokenLen)}

\* get_stream_id, then get_partition as get_stream_contents calls it
stream_identity(url) ==
  LET sid == get_stream_id(url) IN
  IF ~sid.ok
  THEN [kind |-> "error", error |-> sid.error, stream_id |-> << >>, partition |-> 0]
  ELSE LET part == get_partition(sid.stream_id) IN
       IF ~part.ok
       THEN [kind |-> "error", error |-> part.error, stream_id |-> sid.stream_id,
             partition |-> 0]
       ELSE [kind |-> "partition", error |-> "", stream_id |-> sid.stream_id,
             partition |-> part.value]

(***************************************************************************)
(* The remote album.  An item of the webstream response is the sequence of *)
(* its derivatives, each a width and a checksum.                           *)
(***************************************************************************)
Derivative(w, c) == [width |-> w, checksum |-> c]

\* the derivative lists an item of the response can carry
DerivativeLists ==
  { << >>,
    << Derivative(1, "c1") >>,
    << Derivative(1, "c1"), Derivative(2, "c2") >> }

\* the lists photo g can carry: only the first photo is ever without derivatives
DerivativeListsOf(g) == IF g = 1 THEN DerivativeLists ELSE DerivativeLists \ {<< >>}

\* max(derivatives, key=width): the first derivative of maximal width
LargestDerivative(ds) ==
  LET i == CHOOSE k \in 1..Len(ds) :
             /\ \A j \in 1..Len(ds) : ds[j].width <= ds[k].width
             /\ \A j \in 1..(k - 1) : ds[j].width < ds[k].width
  IN ds[i]

\* get_stream_contents on the response body `items` (photoGuid -> derivatives)
get_stream_contents(items) ==
  IF DOMAIN items = {}
  THEN [ok |-> FALSE, error |-> "RuntimeError: no photos", guids |-> << >>]
  ELSE LET withDerivs == {g \in DOMAIN items : items[g] # << >>}
           guids == [g \in withDerivs |-> LargestDerivative(items[g]).checksum]
       IN IF withDerivs = {}
          THEN [ok |-> FALSE, error |-> "RuntimeError: no derivatives", guids |-> << >>]
          ELSE [ok |-> TRUE, error |-> "", guids |-> guids]

(***************************************************************************)
(* The rotation cycle: IcloudPhotos.generate_image.                        *)
(***************************************************************************)
EmptyPool == [g \in {} |-> [checksum |-> "c1", viewed |-> FALSE]]

\* an additive merge: entries of ids the album no longer holds are kept
Sync_additive(old, latest_map) ==
  [g \in DOMAIN latest_map \cup DOMAIN old |->
     IF g \in DOMAIN latest_map
     THEN [checksum |-> latest_map[g],
           viewed   |-> IF g \in DOMAIN old THEN old[g].viewed ELSE FALSE]
     ELSE old[g]]

\* a merge that forgets the viewed flags
Sync_forget(old, latest_map) ==
  [g \in DOMAIN latest_map |-> [checksum |-> latest_map[g], viewed |-> FALSE]]

\* step 2 of generate_image: the pool rebuilt from the fetched map
Sync(old, latest_map) ==
  [g \in DOMAIN latest_map |->
     [checksum |-> latest_map[g],
      viewed   |-> IF g \in DOMAIN old THEN old[g].viewed ELSE FALSE]]

\* a choice list that ignores the viewed flags
Unseen_all(saved) == DOMAIN saved

\* step 3: the ids not yet viewed
Unseen(saved) == {g \in DOMAIN saved : ~saved[g].viewed}

\* a reset that leaves the flags as they are
ResetFlags_none(saved) == saved

\* step 3: all flags reset in one go
ResetFlags(saved) ==
  [g \in DOMAIN saved |-> [checksum |-> saved[g].checksum, viewed |-> FALSE]]

\* step 3: the pool and the list the choice is made from
AfterReset(saved) == IF Unseen(saved) = {} THEN ResetFlags(saved) ELSE saved

Eligible(saved) == IF Unseen(saved) = {} THEN DOMAIN AfterReset(saved) ELSE Unseen(saved)

\* a marking that marks nothing
MarkViewed_none(saved, guid) == saved

\* a marking that clears the flag of every other entry
MarkViewed_only(saved, guid) ==
  [g \in DOMAIN saved |-> [checksum |-> saved[g].checksum, viewed |-> (g = guid)]]

\* step 4: saved[guid]["viewed"] = True
MarkViewed(saved, guid) ==
  [saved EXCEPT ![guid] = [checksum |-> saved[guid].checksum, viewed |-> TRUE]]

\* the pool marked and persisted whether or not the URL was resolved
Persisted_early(old, saved, guid, dirty, resolved) ==
  IF ~saved[guid].viewed THEN MarkViewed(saved, guid)
  ELSE IF dirty THEN saved ELSE old

\* steps 4 and 5: settings["photos"] when the cycle is past get_photo_url;
\* `saved` is the pool after step 3 and `dirty` the flag after step 3
Persisted(old, saved, guid, dirty, resolved) ==
  IF resolved # "ok" THEN old
  ELSE IF ~saved[guid].viewed THEN MarkViewed(saved, guid)
  ELSE IF dirty THEN saved ELSE old

\* the backgroundColor settings; NoColor is the key being absent
NoColor == "<absent>"
BackgroundColors == {NoColor, "notacolor"}

\* ImageColor.getrgb accepts the string
ValidColor(s) == s \in {"#FFFFFF", "#000000"}

(***************************************************************************)
(* The fit pipeline: resize_image and DisplayManager.display_image.        *)
(* An image is its size <<width, height>>.  A fit dict is a record whose   *)
(* fields hold Absent where the dict has no such key.                      *)
(***************************************************************************)
Absent == "<absent>"
Strategies == {"smart", "cover", "contain", "stretch", "default", "SMART", Absent}
Preserves == {"none", "width", "height", "HEIGHT", Absent}
Orientations == {"horizontal", "vertical"}
Dims == 1..MaxDim
White == <<255, 255, 255>>
NoBox == << >>

Max(a, b) == IF a > b THEN a ELSE b

Min(a, b) == IF a < b THEN a ELSE b

\* dict.get(key, default)
Get(value, default) == IF value = Absent THEN default ELSE value

\* ImageColor.getrgb on the color strings of the model
getrgb(s) ==
  IF s = "#FFFFFF" THEN [ok |-> TRUE, rgb |-> White]
  ELSE IF s = "#000000" THEN [ok |-> TRUE, rgb |-> <<0, 0, 0>>]
  ELSE [ok |-> FALSE, rgb |-> << >>]

\* image.crop(box).resize(desired_size): `rejects` is whether the imaging
\* library raises on a crop box without pixels
CropResize(transform, box, desired_size, rejects) ==
  IF (box[3] <= box[1] \/ box[4] <= box[2]) /\ rejects
  THEN [transform |-> transform, box |-> box, size |-> << >>,
        background |-> << >>, error |-> "ValueError"]
  ELSE [transform |-> transform, box |-> box, size |-> desired_size,
        background |-> << >>, error |-> ""]

\* a transform that does not crop by an explicit box
Fitted(transform, desired_size, background) ==
  [transform |-> transform, box |-> NoBox, size |-> desired_size,
   background |-> IF transform = "letterbox" THEN background ELSE << >>,
   error |-> ""]

\* the strategy rules tried before the preserve rules
resize_image_strategy_first(image, desired_size, fit, orientation, background, rejects) ==
  LET desired_width == desired_size[1]
      desired_height == desired_size[2]
      strategy == Get(fit.strategy, "default")
      preserve == Get(fit.preserve, "none")
      img_w == image[1]
      img_h == image[2]
      is_portrait == ~(img_w >= img_h)
  IN
  IF strategy = "smart"
  THEN IF orientation = "horizontal"
       THEN Fitted(IF is_portrait THEN "letterbox" ELSE "cover", desired_size, background)
       ELSE Fitted(IF is_portrait THEN "cover" ELSE "stretch", desired_size, background)
  ELSE IF strategy = "contain" THEN Fitted("letterbox", desired_size, background)
  ELSE IF strategy = "stretch" THEN Fitted("stretch", desired_size, background)
  ELSE IF preserve = "width"
  THEN LET new_height == (img_w * desired_height) \div desired_width
           y0 == Max(0, (img_h - new_height) \div 2)
       IN CropResize("crop_width", <<0, y0, img_w, Min(img_h, y0 + new_height)>>,
                     desired_size, rejects)
  ELSE IF preserve = "height"
  THEN LET new_width == (img_h * desired_width) \div desired_height
           x0 == Max(0, (img_w - new_width) \div 2)
       IN CropResize("crop_height", <<x0, 0, Min(img_w, x0 + new_width), img_h>>,
                     desired_size, rejects)
  ELSE Fitted("cover", desired_size, background)

\* resize_image.  int(img_w / (desired_width / desired_height)) on doubles is
\* the floor of img_w * desired_height / desired_width for all sizes up to 8,
\* which covers the sizes of the model.
resize_image(image, desired_size, fit, orientation, background, rejects) ==
  LET desired_width == desired_size[1]
      desired_height == desired_size[2]
      strategy == Get(fit.strategy, "default")
      preserve == Get(fit.preserve, "none")
      img_w == image[1]
      img_h == image[2]
      is_landscape_or_square == img_w >= img_h
      is_portrait == ~is_landscape_or_square
  IN
  IF preserve = "width"
  THEN LET new_height == (img_w * desired_height) \div desired_width
           y0 == Max(0, (img_h - new_height) \div 2)
       IN CropResize("crop_width", <<0, y0, img_w, Min(img_h, y0 + new_height)>>,
                     desired_size, rejects)
  ELSE IF preserve = "height"
  THEN LET new_width == (img_h * desired_width) \div desired_height
           x0 == Max(0, (img_w - new_width) \div 2)
       IN CropResize("crop_height", <<x0, 0, Min(img_w, x0 + new_width), img_h>>,
                     desired_size, rejects)
  ELSE IF strategy = "smart"
  THEN IF orientation = "horizontal"
       THEN Fitted(IF is_portrait THEN "letterbox" ELSE "cover", desired_size, background)
       ELSE Fitted(IF is_portrait THEN "cover" ELSE "stretch", desired_size, background)
  ELSE IF strategy = "contain" THEN Fitted("letterbox", desired_size, background)
  ELSE IF strategy = "stretch" THEN Fitted("stretch", desired_size, background)
  ELSE Fitted("cover", desired_size, background)

\* change_orientation without inversion: rotate(angle, expand=1)
change_orientation(image, orientation) ==
  IF orientation = "horizontal" THEN image ELSE <<image[2], image[1]>>

\* str(value).lower() on the fit values of the model
Lower(v) ==
  IF v = "SMART" THEN "smart" ELSE IF v = "HEIGHT" THEN "height" ELSE v

\* the shapes of the photo_fit argument: None, the fit dict itself, a dict
\* holding the fit dict under "fit", and a non-empty string
PhotoFitForms == {"none", "direct", "nested", "string"}

\* display_image: the fit_config built from photo_fit
fit_config(form, fit) ==
  IF form \in {"direct", "nested"}
  THEN [strategy |-> Lower(fit.strategy), preserve |-> Lower(fit.preserve)]
  ELSE [strategy |-> Absent, preserve |-> Absent]

\* the backgroundColor arguments of display_image; Absent is None
DisplayColors == {Absent, "", "#000000", "notacolor"}

\* display_image: the background it resolves
display_background(backgroundColor) ==
  LET hex == IF backgroundColor \in {Absent, ""} THEN "#FFFFFF" ELSE backgroundColor
  IN IF getrgb(hex).ok THEN getrgb(hex).rgb ELSE White

\* display_image on a manager whose display is set and whose device
\* resolution is desired_size
display_image(image, desired_size, orientation, form, fit, backgroundColor, rejects) ==
  LET background == display_background(backgroundColor)
      rotated == change_orientation(image, orientation)
      resized == resize_image(rotated, desired_size, fit_config(form, fit),
                              orientation, background, rejects)
  IN [op |-> "display_image", form |-> form, color |-> backgroundColor,
      background |-> background, resized |-> resized,
      outcome |-> IF resized.error # "" THEN resized.error ELSE "displayed"]

VARIABLES
  photos,     \* settings["photos"], the persisted pool
  stream,     \* the remote album: photoGuid -> derivatives
  outcome,    \* how the last cycle ended: "Image" or the error raised
  guid,       \* the photoGuid the last cycle chose, NoGuid if it chose none
  synced,     \* the pool `saved` as built by the sync step of the last cycle
  unseen,     \* the list the last cycle chose from
  reset,      \* the last cycle reset all flags
  bg_hex,     \* the color string the last cycle parsed
  run,        \* photoGuids chosen since the run began or the flags were reset
  cycles,     \* successful cycles of the run, counted up to MaxGuids + 1
  fresh,      \* the run began with no entry of the pool viewed
  image,      \* the size of the source image handed to the fit pipeline
  desired_size, \* the target size (the device resolution)
  fit,        \* the fit dict
  orientation, \* the device orientation
  result,     \* what the last call of the fit pipeline returned
  identity_url,  \* the album URL stream identity derivation is applied to
  identity    \* what stream identity derivation returned for identity_url

cycleVars == <<photos, outcome, guid, synced, unseen, reset, bg_hex>>
runVars == <<run, cycles, fresh>>
poolVars == <<photos, stream, outcome, guid, synced, unseen, reset, bg_hex, run, cycles, fresh>>
fitVars == <<image, desired_size, fit, orientation, result>>
idVars == <<identity_url, identity>>
vars == <<photos, stream, outcome, guid, synced, unseen, reset, bg_hex, run, cycles, fresh,
          image, desired_size, fit, orientation, result, identity_url, identity>>

NoResult == [op |-> "none"]

InitPool ==
  /\ photos = EmptyPool
  /\ stream = EmptyPool
  /\ outcome = "none"
  /\ guid = NoGuid
  /\ synced = EmptyPool
  /\ unseen = {}
  /\ reset = FALSE
  /\ bg_hex = NoColor
  /\ run = << >>
  /\ cycles = 0
  /\ fresh = FALSE

NoIdentity == [kind |-> "none"]

Init ==
  /\ InitPool
  /\ identity_url = EmptyUrl
  /\ identity = NoIdentity
  /\ image = <<1, 1>>
  /\ desired_size = <<1, 1>>
  /\ fit = [strategy |-> Absent, preserve |-> Absent]
  /\ orientation = "horizontal"
  /\ result = NoResult

\* no cycle has run since the album last changed
NoCycle ==
  /\ outcome' = "none"
  /\ guid' = NoGuid
  /\ synced' = EmptyPool
  /\ unseen' = {}
  /\ reset' = FALSE
  /\ bg_hex' = NoColor

\* a cycle that raises before the sync step
FailEarly(error) ==
  /\ outcome' = error
  /\ guid' = NoGuid
  /\ synced' = EmptyPool
  /\ unseen' = {}
  /\ reset' = FALSE
  /\ bg_hex' = NoColor
  /\ UNCHANGED photos

\* between two cycles the album owner adds, replaces or removes one photo
UpdateStream ==
  /\ \E g \in Guids :
       \/ \E ds \in DerivativeListsOf(g) :
            /\ (IF g \in DOMAIN stream THEN stream[g] # ds ELSE TRUE)
            /\ stream' = [h \in DOMAIN stream \cup {g} |-> IF h = g THEN ds ELSE stream[h]]
       \/ /\ g \in DOMAIN stream
          /\ stream' = [h \in DOMAIN stream \ {g} |-> stream[h]]
  /\ NoCycle
  /\ UNCHANGED photos

\* the outcomes of get_photo_url and of _download_and_fit
Resolutions == {"HTTPError: webasseturls", "RuntimeError: no matching checksum", "ok"}
Downloads == {"RuntimeError: failed to download image",
              "RuntimeError: not a valid image format", "Image"}

generate_image ==
  /\ UNCHANGED stream
  /\ \E album_url \in AlbumUrls :
       LET sid == get_stream_id(album_url) IN
       IF album_url.empty THEN FailEarly("RuntimeError: missing album URL")
       ELSE IF ~sid.ok THEN FailEarly(sid.error)
       ELSE IF ~get_partition(sid.stream_id).ok
            THEN FailEarly(get_partition(sid.stream_id).error)
       ELSE \E fetched \in BOOLEAN :
         LET contents == get_stream_contents(stream) IN
         IF ~fetched THEN FailEarly("HTTPError: webstream")
         ELSE IF ~contents.ok THEN FailEarly(contents.error)
         ELSE
           LET old == photos
               saved == Sync(old, contents.guids)
               dirty == (saved # old) \/ Unseen(saved) = {}
           IN
           /\ synced' = saved
           /\ unseen' = Eligible(saved)
           /\ reset' = (Unseen(saved) = {})
           /\ IF Eligible(saved) = {}
              THEN /\ outcome' = "RuntimeError: no photos available"
                   /\ guid' = NoGuid
                   /\ bg_hex' = NoColor
                   /\ UNCHANGED photos
              ELSE \E choice \in Eligible(saved), resolved \in Resolutions :
                /\ guid' = choice
                /\ photos' = Persisted(old, AfterReset(saved), choice, dirty, resolved)
                /\ IF resolved # "ok"
                   THEN /\ outcome' = resolved
                        /\ bg_hex' = NoColor
                   ELSE \E color \in BackgroundColors :
                          /\ bg_hex' = (IF color = NoColor THEN "#FFFFFF" ELSE color)
                          /\ IF ~ValidColor(bg_hex')
                             THEN outcome' = "ValueError: unknown color specifier"
                             ELSE \E download \in Downloads : outcome' = download

(***************************************************************************)
(* The run: consecutive successful cycles against an unchanged album.      *)
(***************************************************************************)
NoRun ==
  /\ run' = << >>
  /\ cycles' = 0
  /\ fresh' = FALSE

RecordRun ==
  IF outcome' # "Image" THEN NoRun
  ELSE /\ fresh' = IF cycles = 0 THEN Unseen(photos) = DOMAIN photos ELSE fresh
       /\ run' = IF reset' THEN <<guid'>> ELSE Append(run, guid')
       /\ cycles' = Min(cycles + 1, MaxGuids + 1)

Next ==
  \/ generate_image /\ UNCHANGED runVars /\ UNCHANGED fitVars /\ UNCHANGED idVars
  \/ UpdateStream /\ UNCHANGED runVars /\ UNCHANGED fitVars /\ UNCHANGED idVars

Spec == Init /\ [][Next]_vars

NextRun ==
  \/ generate_image /\ RecordRun /\ UNCHANGED fitVars /\ UNCHANGED idVars
  \/ UpdateStream /\ NoRun /\ UNCHANGED fitVars /\ UNCHANGED idVars

SpecRun == Init /\ [][NextRun]_vars

(***************************************************************************)
(* The fit pipeline applied to every input of the bounded sets.            *)
(***************************************************************************)
InitFit ==
  /\ InitPool
  /\ identity_url = EmptyUrl
  /\ identity = NoIdentity
  /\ image \in Dims \X Dims
  /\ desired_size \in Dims \X Dims
  /\ fit \in [strategy : Strategies, preserve : Preserves]
  /\ orientation \in Orientations
  /\ result = NoResult

ResizeImage ==
  /\ result = NoResult
  /\ \E rejects \in BOOLEAN :
       result' = [op |-> "resize_image",
                  resized |-> resize_image(image, desired_size, fit, orientation, White, rejects)]
  /\ UNCHANGED <<image, desired_size, fit, orientation>>
  /\ UNCHANGED poolVars
  /\ UNCHANGED idVars

DisplayImage ==
  /\ result = NoResult
  /\ \E form \in PhotoFitForms, backgroundColor \in DisplayColors, rejects \in BOOLEAN :
       result' = display_image(image, desired_size, orientation, form, fit,
                               backgroundColor, rejects)
  /\ UNCHANGED <<image, desired_size, fit, orientation>>
  /\ UNCHANGED poolVars
  /\ UNCHANGED idVars

NextFit == ResizeImage \/ DisplayImage

SpecFit == InitFit /\ [][NextFit]_vars

(***************************************************************************)
(* Stream identity derivation applied to every URL of the bounded set.     *)
(***************************************************************************)
InitIdentity ==
  /\ InitPool
  /\ image = <<1, 1>>
  /\ desired_size = <<1, 1>>
  /\ fit = [strategy |-> Absent, preserve |-> Absent]
  /\ orientation = "horizontal"
  /\ result = NoResult
  /\ identity_url \in IdentityUrls
  /\ identity = NoIdentity

DeriveIdentity ==
  /\ identity = NoIdentity
  /\ identity' = stream_identity(identity_url)
  /\ UNCHANGED identity_url
  /\ UNCHANGED poolVars
  /\ UNCHANGED fitVars

NextIdentity == DeriveIdentity

SpecIdentity == InitIdentity /\ [][NextIdentity]_vars

(***************************************************************************)
(* Properties of the rotation cycle.                                       *)
(***************************************************************************)
\* the map get_stream_contents returns for the album as it is
Catalog(items) == get_stream_contents(items).guids

\* the last cycle got as far as the sync step
ReachedSync == synced # EmptyPool

ResolveFailed == outcome \in Resolutions \ {"ok"}

Viewed(pool) == {g \in DOMAIN pool : pool[g].viewed}

\* C1: the pool built by the sync step has exactly the catalog's ids; each
\* entry carries the catalog's checksum; an id of the prior pool keeps its
\* viewed flag, a new id is unviewed, and ids absent from the catalog are gone.
C1_SyncFullReplace ==
  [][ReachedSync' =>
        /\ DOMAIN synced' = DOMAIN Catalog(stream)
        /\ \A g \in DOMAIN synced' :
             /\ synced'[g].checksum = Catalog(stream)[g]
             /\ synced'[g].viewed = (g \in DOMAIN photos /\ photos[g].viewed)
        /\ \A g \in DOMAIN photos \ DOMAIN Catalog(stream) : g \notin DOMAIN synced'
     ]_vars

\* a cycle that stopped at get_photo_url (so photos is still the prior pool)
\* after a sync that dropped a viewed id, kept the flag of a second id and
\* added a third, unviewed one
C1_Witness ==
  /\ ResolveFailed
  /\ \E g \in DOMAIN photos : photos[g].viewed /\ g \notin DOMAIN synced
  /\ \E g \in DOMAIN photos : g \in DOMAIN synced /\ synced[g].viewed = photos[g].viewed
  /\ \E h \in DOMAIN synced : h \notin DOMAIN photos /\ ~synced[h].viewed

\* C2: a chosen id is an id of the synced pool whose flag is false at the
\* moment of choice (after any reset), the list it is drawn from is not
\* empty, and a cycle with nothing to choose from ends in an error.
C2_SelectUnviewed ==
  /\ guid # NoGuid =>
       /\ unseen # {}
       /\ guid \in unseen
       /\ guid \in DOMAIN synced
       /\ unseen = {g \in DOMAIN synced : reset \/ ~synced[g].viewed}
       /\ (~reset => ~synced[guid].viewed)
       /\ (reset => Viewed(synced) = DOMAIN synced)
  /\ (outcome # "none" /\ unseen = {}) =>
       (guid = NoGuid /\ outcome \notin Downloads /\ outcome \notin Resolutions)

\* a cycle chose among several ids of a pool that also holds a viewed one
C2_Witness ==
  /\ guid # NoGuid
  /\ ~reset
  /\ Viewed(synced) # {}
  /\ guid \in unseen

\* C3: when every entry of the synced pool is viewed, a successful cycle
\* resets all flags, selects one id, and persists a pool where exactly that
\* id is viewed and the other n-1 ids are eligible.
C3_ExhaustionReset ==
  (ReachedSync /\ Viewed(synced) = DOMAIN synced /\ outcome = "Image") =>
     /\ reset
     /\ unseen = DOMAIN synced
     /\ guid \in DOMAIN synced
     /\ DOMAIN photos = DOMAIN synced
     /\ Viewed(photos) = {guid}
     /\ Cardinality(Unseen(photos)) = Cardinality(DOMAIN synced) - 1
     /\ \A g \in DOMAIN photos : photos[g].checksum = synced[g].checksum

\* a successful cycle on an exhausted pool of three ids
C3_Witness ==
  /\ ReachedSync
  /\ Viewed(synced) = DOMAIN synced
  /\ Cardinality(DOMAIN synced) = 3
  /\ outcome = "Image"

\* C4: a cycle in which get_photo_url fails leaves settings["photos"]
\* exactly as it was before the cycle.
C4_ResolveFailureKeepsPool ==
  [][ResolveFailed' => photos' = photos]_vars

\* get_photo_url failed in a cycle whose sync changed the pool and whose
\* flags had all been reset
C4_Witness ==
  /\ ResolveFailed
  /\ reset
  /\ synced # photos
  /\ guid # NoGuid

\* C6: a persisted viewed flag goes from true to false only in a cycle in
\* which every entry of the synced pool was viewed.
C6_ResetOnlyOnExhaustion ==
  [][\A g \in DOMAIN photos \cap DOMAIN photos' :
        (photos[g].viewed /\ ~photos'[g].viewed) =>
           /\ ReachedSync'
           /\ reset'
           /\ Viewed(synced') = DOMAIN synced'
     ]_vars

\* a cycle has reset the flags and left some id eligible again
C6_Witness ==
  /\ reset
  /\ outcome = "Image"
  /\ Unseen(photos) # {}
  /\ Viewed(synced) = DOMAIN synced

\* C7: with the pool already in step with the catalog and some id unviewed,
\* a successful cycle changes one entry only, the selected id's flag from
\* false to true, and a further sync against the same catalog gives the
\* persisted pool back.
C7_OneEntryChanges ==
  [][(outcome' = "Image" /\ synced' = photos /\ Unseen(photos) # {}) =>
        /\ DOMAIN photos' = DOMAIN photos
        /\ ~photos[guid'].viewed
        /\ photos'[guid'].viewed
        /\ \A g \in DOMAIN photos \ {guid'} : photos'[g] = photos[g]
        /\ photos'[guid'].checksum = photos[guid'].checksum
        /\ Sync(photos', Catalog(stream')) = photos'
     ]_vars

\* a successful cycle on a pool of three ids: one was viewed before the
\* cycle, one was chosen by it, and one is still unviewed
C7_Witness ==
  /\ outcome = "Image"
  /\ ~reset
  /\ Cardinality(DOMAIN photos) = 3
  /\ Viewed(synced) # {}
  /\ Unseen(photos) # {}
  /\ MarkViewed(synced, guid) = photos

\* C10: an invalid background color string never makes the cycle fail: white
\* is substituted and the cycle goes on to download.
C10_InvalidColorTolerated ==
  (bg_hex # NoColor /\ ~ValidColor(bg_hex)) => outcome \in Downloads

(***************************************************************************)
(* Properties of a run of successful cycles (SpecRun).                     *)
(***************************************************************************)
Range(seq) == {seq[i] : i \in 1..Len(seq)}

\* C5: in a run of successful cycles against an unchanged album no id is
\* chosen twice before the flags are reset, and a run that began with no
\* entry viewed chooses distinct ids in its first n cycles (no reset comes
\* before every id of the catalog has been chosen).
C5_NoRepetition ==
  /\ Cardinality(Range(run)) = Len(run)
  /\ Range(run) \subseteq Viewed(photos)
  /\ (fresh /\ cycles <= Cardinality(DOMAIN photos)) => Len(run) = cycles

\* a run from an unviewed pool has chosen every id of a three-id catalog
C5_Witness ==
  /\ fresh
  /\ cycles = 3
  /\ Len(run) = 3
  /\ Cardinality(DOMAIN photos) = 3

(***************************************************************************)
(* Properties of the fit pipeline (SpecFit).                               *)
(***************************************************************************)
IsPortrait(size) == size[2] > size[1]

\* the table of transforms by preserve, strategy, orientation and shape
TransformTable(preserve, strategy, orient, portrait) ==
  CASE preserve = "width" -> "crop_width"
    [] preserve = "height" -> "crop_height"
    [] preserve \notin {"width", "height"} /\ strategy = "smart" ->
         (CASE orient = "horizontal" /\ portrait -> "letterbox"
            [] orient = "horizontal" /\ ~portrait -> "cover"
            [] orient = "vertical" /\ portrait -> "cover"
            [] orient = "vertical" /\ ~portrait -> "stretch")
    [] preserve \notin {"width", "height"} /\ strategy = "contain" -> "letterbox"
    [] preserve \notin {"width", "height"} /\ strategy = "stretch" -> "stretch"
    [] OTHER -> "cover"

\* C8: the transform resize_image applies is the one the table gives for the
\* preserve and strategy values of the fit dict, the orientation and the
\* shape of the source.
C8_TransformTable ==
  result.op = "resize_image" =>
    result.resized.transform =
      TransformTable(fit.preserve, fit.strategy, orientation, IsPortrait(image))

\* resize_image was called with preserve=width and strategy=contain on a
\* portrait source and cropped
C8_Witness ==
  /\ result.op = "resize_image"
  /\ fit.preserve = "width"
  /\ fit.strategy = "contain"
  /\ IsPortrait(image)
  /\ result.resized.transform = "crop_width"

\* C9: for preserve=width and preserve=height the crop box lies within the
\* source and is not empty (0 <= start < end <= extent on the cropped axis,
\* the full extent on the other axis), and the result has the target size.
C9_CropBoxWithinSource ==
  (result.op = "resize_image" /\ fit.preserve \in {"width", "height"}) =>
    LET box == result.resized.box IN
    /\ result.resized.error = ""
    /\ result.resized.size = desired_size
    /\ fit.preserve = "width" =>
         /\ box[1] = 0 /\ box[3] = image[1]
         /\ 0 <= box[2] /\ box[2] < box[4] /\ box[4] <= image[2]
    /\ fit.preserve = "height" =>
         /\ box[2] = 0 /\ box[4] = image[2]
         /\ 0 <= box[1] /\ box[1] < box[3] /\ box[3] <= image[1]

(***************************************************************************)
(* Properties of stream identity derivation (SpecIdentity).                *)
(***************************************************************************)
IsAlnum(token) == \A i \in 1..Len(token) : IsBase62(token[i])

\* the token has no second character (first character 'A') or no second
\* and third character (otherwise)
TooShort(token) ==
  IF token # << >> /\ token[1] = "A" THEN Len(token) < 2 ELSE Len(token) < 3

Malformed(url) ==
  \/ url.empty
  \/ ~url.prefix
  \/ Strip(url.token) = << >>
  \/ ~IsAlnum(Strip(url.token))
  \/ TooShort(Strip(url.token))

\* C11: every malformed album URL or token (missing or wrong prefix, empty
\* or non-alphanumeric token, token too short for the partition characters)
\* is rejected with the RuntimeError of get_stream_id / get_partition: none
\* yields a partition value or another kind of error.
C11_MalformedRejected ==
  (identity # NoIdentity /\ Malformed(identity_url)) =>
     /\ identity.kind = "error"
     /\ identity.error \in {"RuntimeError: provide a full URL",
                            "RuntimeError: stream ID invalid",
                            "RuntimeError: could not compute partition"}

PostResolveFailures ==
  {"ValueError: unknown color specifier"} \cup (Downloads \ {"Image"})

\* C12: a cycle that fails after URL resolution (background color parsing,
\* download transport error, image decode error) leaves settings["photos"]
\* as it was before the cycle: a photo is marked viewed only by a cycle that
\* returns an image.
C12_LateFailureKeepsPool ==
  [][(outcome' \in PostResolveFailures) => photos' = photos]_vars

====
